---- MODULE Spec2Model ----
\* Model of the askYoutube pipeline (youtube.js) and of the Express handler
\* POST /ask-youtube (server.js) that drives it.
\*
\* Every request is a process whose position `pc` moves between the await
\* points of the handler and of askYoutube.  The module-level Map
\* `embeddingCache` and the Pinecone index (`store`) are the only state shared
\* by requests.  The external collaborators (Pinecone, YoutubeLoader, OpenAI)
\* are modelled by their outcomes: a call returns or throws, chosen with \E.
EXTENDS Integers, Sequences, FiniteSets, TLC

\* ---------------------------------------------------------------- bounds
MaxRequests == 2    \* requests the server receives in one run
NumChunks == 2      \* chunks the splitter cuts a usable transcript into
MaxFrags == 2       \* fragments the language model streams at most
MaxDays == 1        \* how many times a whole cacheTTL may elapse

\* ------------------------------------------------- DEFAULT_CONFIG (youtube.js)
maxRetries == 3
retryDelay == 2000
topK == 6
cacheTTL == 24 * 60 * 60 * 1000

DEFAULT_CONFIG ==
    [maxRetries |-> maxRetries, retryDelay |-> retryDelay,
     topK |-> topK, cacheTTL |-> cacheTTL]

\* the requests followed at one time; once both are answered the next two follow
Reqs == {1, 2}
Chunks == 1 .. NumChunks

\* ------------------------------------------------------------ request bodies
Undefined == "<undefined>"          \* a field absent from req.body
Null == "<null>"                    \* searchParams.get of an absent parameter

UrlA == "https://www.youtube.com/watch?v=A"
UrlB == "https://www.youtube.com/watch?v=B"
UrlNoV == "https://www.youtube.com/watch"
UrlEmptyV == "https://www.youtube.com/watch?v="
NotAUrl == "not a url"

\* JavaScript truthiness of a request field (a string or undefined)
Truthy(x) == x \notin {Undefined, ""}

\* new URL(videoUrl): throws a TypeError for a string that is no absolute URL
ParsesAsURL(u) == u \in {UrlA, UrlB, UrlNoV, UrlEmptyV}

\* new URL(videoUrl).searchParams.get("v")
SearchParamV(u) ==
    CASE u = UrlA -> "A"
      [] u = UrlB -> "B"
      [] u = UrlEmptyV -> ""
      [] OTHER -> Null

\* one namespace for every video: the video id left out of the key
Namespace_shared(videoId) == "yt-"

\* `yt-${videoId}`; a template literal prints null as "null"
Namespace(videoId) == IF videoId = Null THEN "yt-null" ELSE "yt-" \o videoId

TextTranscript == "We're no strangers to love."
BlankTranscript == "   "

\* pageContent.trim() is the empty string
TrimsToEmpty(t) == t \in {"", BlankTranscript}

Body(u, q, t) == [videoUrl |-> u, query |-> q, transcript |-> t]

\* the request bodies the callers send
Bodies ==
    { Body(Undefined, "x", Undefined),
      Body(UrlA, Undefined, Undefined),
      Body("", "", Undefined),
      Body(NotAUrl, "x", Undefined),
      Body(UrlNoV, "x", Undefined),
      Body(UrlEmptyV, "x", Undefined),
      Body(UrlA, "x", Undefined),
      Body(UrlA, "x", BlankTranscript),
      Body(UrlB, "x", TextTranscript) }

NoBody == Body(Undefined, Undefined, Undefined)

\* ------------------------------------------------------------------- errors
NoErr == [name |-> "none", n |-> 0]
Err(name) == [name |-> name, n |-> 0]
\* the error the n-th failed addDocuments call of a request threw
StoreWriteError(n) == [name |-> "StoreWriteError", n |-> n]

\* err.message
Message(e) ==
    CASE e.name = "TypeError" -> "Invalid URL"
      [] e.name = "InvalidVideoUrl" -> "Invalid YouTube URL - no video ID found"
      [] e.name = "NoFallbackConfigured" -> "Primary LLM failed and no fallback configured."
      [] e.name = "TranscriptUnavailable" -> "Could not retrieve transcript. Please ensure the video has captions."
      [] e.name = "EmptyTranscript" -> "Transcript not found or is empty."
      [] e.name = "StoreWriteError" -> "upsert failed"
      [] e.name = "RetrievalError" -> "query failed"
      [] e.name = "ModelError" -> "model stream failed"
      [] OTHER -> ""

NotFoundLiteral ==
    "I couldn't find any relevant information in the video to answer your question."

\* ----------------------------------------------------------- HTTP response
\* what has been written to the response, in order
Item(kind, text, n) == [kind |-> kind, text |-> text, n |-> n]
JsonErrorItem(msg) == Item("json_error", msg, 0)
JsonAnswerItem(answer) == Item("json_answer", answer, 0)
FragmentItem(k) == Item("fragment", "", k)
ErrorMarkerItem(e) == Item("error_marker", "\n\nError: " \o Message(e), e.n)

FreshRes ==
    [status |-> 200, statusSets |-> 0, headersSent |-> FALSE,
     body |-> <<>>, ended |-> 0]

\* res.status(code).json(obj): sets the status, sends headers and body, ends
ResStatusJson(res, code, item) ==
    [res EXCEPT !.status = code, !.statusSets = @ + 1, !.headersSent = TRUE,
                !.body = Append(@, item), !.ended = @ + 1]

\* a write that puts the chunk in front of what was written before
ResWrite_prepend(res, item) ==
    [res EXCEPT !.headersSent = TRUE, !.body = <<item>> \o @]

\* res.write(chunk): the first write commits the headers
ResWrite(res, item) ==
    [res EXCEPT !.headersSent = TRUE, !.body = Append(@, item)]

\* a response that is never closed: res.end() left out
ResEnd_noop(res) == [res EXCEPT !.headersSent = TRUE]

\* res.end()
ResEnd(res) == [res EXCEPT !.headersSent = TRUE, !.ended = @ + 1]

\* res.headersSent
HeadersSent(res) == res.headersSent

\* a catch block that answers 500 without looking at res.headersSent
Catch_alwaysStatus(res, e) ==
    ResStatusJson(res, 500,
        JsonErrorItem(IF Message(e) = "" THEN "Server error" ELSE Message(e)))

\* the catch block of the handler
Catch(res, e) ==
    IF ~HeadersSent(res)
    THEN ResStatusJson(res, 500,
             JsonErrorItem(IF Message(e) = "" THEN "Server error" ELSE Message(e)))
    ELSE ResEnd(ResWrite(res, ErrorMarkerItem(e)))

\* the validation with && for ||: if (!videoUrl && !query)
MissingFields_both(b) == ~Truthy(b.videoUrl) /\ ~Truthy(b.query)

\* if (!videoUrl || !query)
MissingFields(b) == ~Truthy(b.videoUrl) \/ ~Truthy(b.query)

\* a test that misses null: if (videoId === "")
VideoIdMissing_emptyOnly(v) == v = ""

\* if (!videoId): null and the empty string are falsy
VideoIdMissing(v) == v \in {Null, ""}

\* ------------------------------------------------------------------- state
VARIABLES
    pc,              \* position of each request in handler / askYoutube
    body,            \* req.body of each request
    loc,             \* locals of askYoutube: exists, attempts, results, ...;
                     \* statsThrew tells until the request's next step
                     \* whether its describeIndexStats call threw
    calls,           \* history: which collaborators the request has called
    res,             \* the HTTP response of each request
    embeddingCache,  \* the module-level Map: namespace -> timestamp
    store,           \* the Pinecone index: namespace -> chunk ordinal -> count
    now,             \* Date.now()
    days,            \* number of cacheTTL periods that have elapsed
    received,        \* number of requests received so far
    config,          \* the config argument askYoutube is called with
    halfDone,        \* history: namespaces a failed ingestion left partly written
    overlapped       \* history: two requests were in flight at the same time

vars == <<pc, body, loc, calls, res, embeddingCache, store, now, days, received,
          config, halfDone, overlapped>>

FreshLoc ==
    [exists |-> "unknown", attempts |-> 0, pending |-> "none",
     nres |-> -1, produced |-> 0,
     err |-> NoErr, outcome |-> "none", afterPartial |-> FALSE,
     statsThrew |-> FALSE]

FreshCalls ==
    [ask |-> 0, model |-> 0, embed |-> 0, cacheRead |-> 0, stats |-> 0,
     loader |-> 0, split |-> 0, add |-> 0, cacheWrite |-> 0, retrieve |-> 0,
     chain |-> 0, stream |-> 0, addLog |-> <<>>, waits |-> <<>>]

\* askYoutube(videoUrl, query, context = {}, config = {}): the default of the
\* fourth parameter, which is what the handler's call leaves it at
NoConfig == [k \in {} |-> 0]

\* configs that a caller of askYoutube can pass
Configs == {NoConfig, [maxRetries |-> 0], [maxRetries |-> 1]}

Init ==
    /\ config = NoConfig
    /\ pc = [r \in Reqs |-> "idle"]
    /\ body = [r \in Reqs |-> NoBody]
    /\ loc = [r \in Reqs |-> FreshLoc]
    /\ calls = [r \in Reqs |-> FreshCalls]
    /\ res = [r \in Reqs |-> FreshRes]
    /\ embeddingCache = <<>>
    /\ store = <<>>
    /\ now = 0
    /\ days = 0
    /\ received = 0
    /\ halfDone = {}
    /\ overlapped = FALSE

\* const finalConfig = { ...DEFAULT_CONFIG, ...config }
FinalConfig(r) ==
    [k \in DOMAIN DEFAULT_CONFIG \cup DOMAIN config |->
        IF k \in DOMAIN config THEN config[k] ELSE DEFAULT_CONFIG[k]]

VideoId(r) == SearchParamV(body[r].videoUrl)
Ns(r) == Namespace(VideoId(r))

InFlight(p) == {r \in Reqs : p[r] \notin {"idle", "done"}}

\* the request throws e: the handler's catch block answers and the request ends
Fail(r, e) ==
    /\ pc' = [pc EXCEPT ![r] = "done"]
    /\ loc' = [loc EXCEPT ![r].err = e, ![r].outcome = "failed",
                          ![r].statsThrew = FALSE]
    /\ res' = [res EXCEPT ![r] = Catch(@, e)]

\* ------------------------------------------------------------------ handler
\* app.post("/ask-youtube"): validation and the streaming headers
Receive(r) ==
    /\ pc[r] = "idle"
    /\ received < MaxRequests
    /\ \A q \in Reqs : q < r => pc[q] # "idle"
    /\ received' = received + 1
    /\ \E b \in Bodies :
        /\ body' = [body EXCEPT ![r] = b]
        /\ IF MissingFields(b)
           THEN /\ res' = [res EXCEPT ![r] =
                       ResStatusJson(@, 400, JsonErrorItem("Missing videoUrl or query"))]
                /\ pc' = [pc EXCEPT ![r] = "done"]
                /\ loc' = [loc EXCEPT ![r].outcome = "rejected"]
           ELSE /\ pc' = [pc EXCEPT ![r] = "resolve"]
                /\ loc' = [loc EXCEPT ![r].afterPartial =
                              Namespace(SearchParamV(b.videoUrl)) \in halfDone]
                /\ UNCHANGED res
    /\ overlapped' = (overlapped \/ Cardinality(InFlight(pc')) > 1)
    /\ UNCHANGED <<config, calls, embeddingCache, store, now, days, halfDone>>

\* askYoutube is called: video id, then the model and embedding clients
Resolve(r) ==
    /\ pc[r] = "resolve"
    /\ IF ~ParsesAsURL(body[r].videoUrl)
       THEN /\ Fail(r, Err("TypeError"))
            /\ calls' = [calls EXCEPT ![r].ask = @ + 1]
       ELSE IF VideoIdMissing(VideoId(r))
       THEN /\ Fail(r, Err("InvalidVideoUrl"))
            /\ calls' = [calls EXCEPT ![r].ask = @ + 1]
       ELSE \E llmOk \in BOOLEAN :
            IF llmOk
            THEN /\ calls' = [calls EXCEPT ![r].ask = @ + 1, ![r].model = @ + 1,
                                           ![r].embed = @ + 1]
                 /\ pc' = [pc EXCEPT ![r] = "check"]
                 /\ UNCHANGED <<loc, res>>
            ELSE /\ calls' = [calls EXCEPT ![r].ask = @ + 1, ![r].model = @ + 1]
                 /\ Fail(r, Err("NoFallbackConfigured"))
    /\ UNCHANGED <<config, body, embeddingCache, store, now, days, received, halfDone, overlapped>>

\* ------------------------------------------------- cache and store helpers
\* a cache that drops the record it is given
CacheSet_noop(c, ns, t) == c

\* embeddingCache.set(namespace, Date.now())
CacheSet(c, ns, t) == [n \in DOMAIN c \cup {ns} |-> IF n = ns THEN t ELSE c[n]]

\* the freshness test with the boundary on the wrong side: age <= cacheTTL
CacheFresh_inclusive(c, ns, t) == ns \in DOMAIN c /\ t - c[ns] <= DEFAULT_CONFIG.cacheTTL

\* embeddingCache.has(namespace) && Date.now() - timestamp < cacheTTL
CacheFresh(c, ns, t) == ns \in DOMAIN c /\ t - c[ns] < DEFAULT_CONFIG.cacheTTL

\* the existence test turned round: stats.namespaces[namespace] === undefined
StatsExists_inverted(st, ns) == ns \notin DOMAIN st

\* stats.namespaces && stats.namespaces[namespace] !== undefined
StatsExists(st, ns) == ns \in DOMAIN st

\* the gate left out: ingestion runs whatever the check returned
NeedsIngest_always(exists) == TRUE

\* if (!exists): the ingestion gate of askYoutube
NeedsIngest(exists) == exists = "no"

\* a write that reports what it did and stores nothing
StoreAdd_lost(st, ns, k) == st

\* vectorStore.addDocuments(documents) as far as it got: the first k documents
\* are upserted under fresh ids, so a repeated write adds to what is there
StoreAdd(st, ns, k) ==
    IF k = 0 THEN st
    ELSE [n \in DOMAIN st \cup {ns} |->
            [i \in Chunks |->
                (IF n \in DOMAIN st THEN st[n][i] ELSE 0)
                + (IF n = ns /\ i <= k THEN 1 ELSE 0)]]

\* some documents of the transcript are in the namespace and others are not
PartlyWritten(st, ns) == ns \in DOMAIN st /\ \E i \in Chunks : st[ns][i] = 0

RECURSIVE SumTo(_, _)
SumTo(f, k) == IF k = 0 THEN 0 ELSE f[k] + SumTo(f, k - 1)

\* number of entries the namespace holds
NsSize(st, ns) == IF ns \in DOMAIN st THEN SumTo(st[ns], NumChunks) ELSE 0

Min(a, b) == IF a <= b THEN a ELSE b

\* what the request does right after the existence check
AfterCheck(exists) == IF NeedsIngest(exists) THEN "load" ELSE "retrieve"

\* ------------------------------------------------------------- namespaceExists
\* the local cache is consulted first; a miss calls describeIndexStats
CheckCache(r) ==
    /\ pc[r] = "check"
    /\ IF CacheFresh(embeddingCache, Ns(r), now)
       THEN /\ loc' = [loc EXCEPT ![r].exists = "yes"]
            /\ pc' = [pc EXCEPT ![r] = AfterCheck("yes")]
            /\ calls' = [calls EXCEPT ![r].cacheRead = @ + 1]
       ELSE /\ pc' = [pc EXCEPT ![r] = "stats"]
            /\ calls' = [calls EXCEPT ![r].cacheRead = @ + 1, ![r].stats = @ + 1]
            /\ UNCHANGED loc
    /\ UNCHANGED <<config, body, res, embeddingCache, store, now, days, received, halfDone, overlapped>>

\* a check that takes a failed query for a confirmation
StatsResult_assumeYes(threw, st, ns) ==
    IF threw THEN "yes" ELSE IF StatsExists(st, ns) THEN "yes" ELSE "no"

\* what namespaceExists returns after a cache miss: the catch block returns
\* false, the try block returns `exists`
StatsResult(threw, st, ns) ==
    IF threw THEN "no" ELSE IF StatsExists(st, ns) THEN "yes" ELSE "no"

\* describeIndexStats returns or throws; a throw is swallowed as "false"
Stats(r) ==
    /\ pc[r] = "stats"
    /\ \E threw \in BOOLEAN :
        LET exists == StatsResult(threw, store, Ns(r))
        IN  /\ loc' = [loc EXCEPT ![r].exists = exists, ![r].statsThrew = threw]
            /\ pc' = [pc EXCEPT ![r] = AfterCheck(exists)]
            /\ IF exists = "yes"
               THEN /\ embeddingCache' = CacheSet(embeddingCache, Ns(r), now)
                    /\ calls' = [calls EXCEPT ![r].cacheWrite = @ + 1]
               ELSE UNCHANGED <<embeddingCache, calls>>
    /\ UNCHANGED <<config, body, res, store, now, days, received, halfDone, overlapped>>

\* ------------------------------------------------------------------ ingestion
\* what loader.load() can return
LoaderResults == {<<>>, <<BlankTranscript>>, <<TextTranscript>>}

\* the test without the trim: if (!docs.length || !docs[0].pageContent)
NoUsableTranscript_noTrim(docs) == Len(docs) = 0 \/ docs[1] = ""

\* if (!docs.length || !docs[0].pageContent.trim())
NoUsableTranscript(docs) == Len(docs) = 0 \/ TrimsToEmpty(docs[1])

\* while (attempts < finalConfig.maxRetries)
LoopTarget(r, attempts) ==
    IF attempts < FinalConfig(r).maxRetries THEN "add" ELSE "retrieve"

\* load the transcript (supplied or fetched), then split it into documents
Load(r) ==
    /\ pc[r] = "load"
    /\ \E fetched \in LoaderResults \cup {<<"throw">>} :
        LET supplied == Truthy(body[r].transcript)
            docs == IF supplied THEN <<body[r].transcript>> ELSE fetched
            c1 == IF supplied THEN calls[r]
                  ELSE [calls[r] EXCEPT !.loader = @ + 1]
        IN  /\ supplied => fetched = <<TextTranscript>>
            /\ IF ~supplied /\ fetched = <<"throw">>
               THEN /\ Fail(r, Err("TranscriptUnavailable"))
                    /\ calls' = [calls EXCEPT ![r] = c1]
               ELSE IF NoUsableTranscript(docs)
               THEN /\ Fail(r, Err("EmptyTranscript"))
                    /\ calls' = [calls EXCEPT ![r] = c1]
               ELSE /\ calls' = [calls EXCEPT ![r] = [c1 EXCEPT !.split = @ + 1]]
                    /\ pc' = [pc EXCEPT ![r] = LoopTarget(r, 0)]
                    /\ loc' = [loc EXCEPT ![r].statsThrew = FALSE]
                    /\ UNCHANGED res
    /\ UNCHANGED <<config, body, embeddingCache, store, now, days, received, halfDone, overlapped>>

\* vectorStore.addDocuments(documents) runs in the store: it writes all the
\* documents and will return, or writes only the first k and will throw
AddDocuments(r) ==
    /\ pc[r] = "add"
    /\ \E k \in 0 .. NumChunks :
        /\ store' = StoreAdd(store, Ns(r), k)
        /\ loc' = [loc EXCEPT ![r].pending = IF k = NumChunks THEN "ok" ELSE "err"]
    /\ pc' = [pc EXCEPT ![r] = "addret"]
    /\ calls' = [calls EXCEPT ![r].add = @ + 1]
    /\ UNCHANGED <<config, body, res, embeddingCache, now, days, received, halfDone, overlapped>>

\* a backoff that does not grow: setTimeout(finalConfig.retryDelay)
Backoff_constant(delay, attempts) == delay

\* await setTimeout(finalConfig.retryDelay * attempts)
Backoff(delay, attempts) == delay * attempts

\* the rethrow test off by one: if (attempts > finalConfig.maxRetries)
RetriesExhausted_late(attempts, max) == attempts > max

\* if (attempts === finalConfig.maxRetries) throw error
RetriesExhausted(attempts, max) == attempts = max

\* the await of addDocuments resumes: the try branch or the catch branch, each
\* with its `await setTimeout(delay)`; the delay asked for is kept in
\* calls.waits, and the clock of the model moves only by whole cacheTTLs
AddReturn(r) ==
    /\ pc[r] = "addret"
    /\ IF loc[r].pending = "ok"
       THEN /\ embeddingCache' = CacheSet(embeddingCache, Ns(r), now)
            /\ calls' = [calls EXCEPT ![r].cacheWrite = @ + 1,
                                      ![r].addLog = Append(@, "ok"),
                                      ![r].waits = Append(@, FinalConfig(r).retryDelay)]
            /\ loc' = [loc EXCEPT ![r].pending = "none"]
            /\ pc' = [pc EXCEPT ![r] = "retrieve"]
            /\ UNCHANGED res
       ELSE LET attempts == loc[r].attempts + 1
                delay == Backoff(FinalConfig(r).retryDelay, attempts)
            IN  IF RetriesExhausted(attempts, FinalConfig(r).maxRetries)
                THEN /\ pc' = [pc EXCEPT ![r] = "done"]
                     /\ loc' = [loc EXCEPT ![r].pending = "none",
                                           ![r].attempts = attempts,
                                           ![r].err = StoreWriteError(attempts),
                                           ![r].outcome = "failed"]
                     /\ res' = [res EXCEPT ![r] = Catch(@, StoreWriteError(attempts))]
                     /\ calls' = [calls EXCEPT ![r].addLog = Append(@, "err")]
                     /\ UNCHANGED embeddingCache
                ELSE /\ pc' = [pc EXCEPT ![r] = LoopTarget(r, attempts)]
                     /\ loc' = [loc EXCEPT ![r].pending = "none",
                                           ![r].attempts = attempts]
                     /\ calls' = [calls EXCEPT ![r].addLog = Append(@, "err"),
                                               ![r].waits = Append(@, delay)]
                     /\ UNCHANGED <<res, embeddingCache>>
    /\ halfDone' = IF pc'[r] = "done" /\ PartlyWritten(store, Ns(r))
                   THEN halfDone \cup {Ns(r)} ELSE halfDone
    /\ UNCHANGED <<config, body, store, now, days, received, overlapped>>

\* --------------------------------------------------- retrieval and composing
\* the emptiness test turned round: if (results.length)
ResultsEmpty_inverted(n) == n # 0

\* if (!results.length)
ResultsEmpty(n) == n = 0

\* how many chunks retriever.invoke(query) can return for a namespace: at most
\* topK of its entries, or none when nothing is similar or visible yet
RetrievalSizes(st, ns) == {0, Min(FinalConfig(1).topK, NsSize(st, ns))}

\* retriever.invoke(query), then the literal answer or the chain
Retrieve(r) ==
    /\ pc[r] = "retrieve"
    /\ \/ /\ Fail(r, Err("RetrievalError"))
          /\ calls' = [calls EXCEPT ![r].retrieve = @ + 1]
       \/ \E n \in RetrievalSizes(store, Ns(r)) :
            IF ResultsEmpty(n)
            THEN \* the handler writes the literal as one JSON object
                 /\ loc' = [loc EXCEPT ![r].nres = n, ![r].outcome = "literal",
                                       ![r].statsThrew = FALSE]
                 /\ res' = [res EXCEPT ![r] =
                        ResEnd(ResWrite(@, JsonAnswerItem(NotFoundLiteral)))]
                 /\ pc' = [pc EXCEPT ![r] = "done"]
                 /\ calls' = [calls EXCEPT ![r].retrieve = @ + 1]
            ELSE /\ loc' = [loc EXCEPT ![r].nres = n, ![r].statsThrew = FALSE]
                 /\ pc' = [pc EXCEPT ![r] = "open"]
                 /\ calls' = [calls EXCEPT ![r].retrieve = @ + 1, ![r].chain = @ + 1]
                 /\ UNCHANGED res
    /\ UNCHANGED <<config, body, embeddingCache, store, now, days, received, halfDone, overlapped>>

\* result.stream({ query }): the language model is invoked
OpenStream(r) ==
    /\ pc[r] = "open"
    /\ calls' = [calls EXCEPT ![r].stream = @ + 1]
    /\ \/ Fail(r, Err("ModelError"))
       \/ /\ pc' = [pc EXCEPT ![r] = "stream"]
          /\ UNCHANGED <<loc, res>>
    /\ UNCHANGED <<config, body, embeddingCache, store, now, days, received, halfDone, overlapped>>

\* one turn of `for await (const chunk of stream)`: the next fragment is
\* written, or the stream is over, or it throws
StreamNext(r) ==
    /\ pc[r] = "stream"
    /\ \/ /\ loc[r].produced < MaxFrags
          /\ loc' = [loc EXCEPT ![r].produced = @ + 1]
          /\ res' = [res EXCEPT ![r] = ResWrite(@, FragmentItem(loc[r].produced + 1))]
          /\ UNCHANGED pc
       \/ /\ loc' = [loc EXCEPT ![r].outcome = "stream"]
          /\ res' = [res EXCEPT ![r] = ResEnd(@)]
          /\ pc' = [pc EXCEPT ![r] = "done"]
       \/ Fail(r, Err("ModelError"))
    /\ UNCHANGED <<config, body, calls, embeddingCache, store, now, days, received, halfDone, overlapped>>

\* ----------------------------------------------------------------------- time
\* a whole cacheTTL elapses; it matters only while some record is still fresh
DayPasses ==
    /\ days < MaxDays
    /\ \E ns \in DOMAIN embeddingCache : CacheFresh(embeddingCache, ns, now)
    /\ now' = now + DEFAULT_CONFIG.cacheTTL
    /\ days' = days + 1
    /\ UNCHANGED <<config, pc, body, loc, calls, res, embeddingCache, store, received,
                   halfDone, overlapped>>

\* both responses have been delivered: the two requests and their responses
\* are dropped, the cache and the index stay
Forget ==
    /\ \A r \in Reqs : pc[r] = "done"
    /\ pc' = [r \in Reqs |-> "idle"]
    /\ body' = [r \in Reqs |-> NoBody]
    /\ loc' = [r \in Reqs |-> FreshLoc]
    /\ calls' = [r \in Reqs |-> FreshCalls]
    /\ res' = [r \in Reqs |-> FreshRes]
    /\ UNCHANGED <<config, embeddingCache, store, now, days, received, halfDone, overlapped>>

Next ==
    \/ \E r \in Reqs : Receive(r)
    \/ \E r \in Reqs : Resolve(r)
    \/ \E r \in Reqs : CheckCache(r)
    \/ \E r \in Reqs : Stats(r)
    \/ \E r \in Reqs : Load(r)
    \/ \E r \in Reqs : AddDocuments(r)
    \/ \E r \in Reqs : AddReturn(r)
    \/ \E r \in Reqs : Retrieve(r)
    \/ \E r \in Reqs : OpenStream(r)
    \/ \E r \in Reqs : StreamNext(r)
    \/ Forget
    \/ DayPasses

Spec == Init /\ [][Next]_vars

\* the program with askYoutube called with a config of the caller's choice
ConfigInit ==
    /\ config \in Configs
    /\ pc = [r \in Reqs |-> "idle"]
    /\ body = [r \in Reqs |-> NoBody]
    /\ loc = [r \in Reqs |-> FreshLoc]
    /\ calls = [r \in Reqs |-> FreshCalls]
    /\ res = [r \in Reqs |-> FreshRes]
    /\ embeddingCache = <<>>
    /\ store = <<>>
    /\ now = 0
    /\ days = 0
    /\ received = 0
    /\ halfDone = {}
    /\ overlapped = FALSE

SpecConfig == ConfigInit /\ [][Next]_vars

\* one step of request r between its reception and its response
Step(r) ==
    \/ Resolve(r) \/ CheckCache(r) \/ Stats(r) \/ Load(r) \/ AddDocuments(r)
    \/ AddReturn(r) \/ Retrieve(r) \/ OpenStream(r) \/ StreamNext(r)

\* every awaited collaborator call returns or throws, and the event loop then
\* resumes the request that awaited it
FairSpec == Spec /\ \A r \in Reqs : WF_vars(Step(r))

TypeOK ==
    /\ pc \in [Reqs -> {"idle", "resolve", "check", "stats", "load", "add",
                        "addret", "retrieve", "open", "stream", "done"}]
    /\ \A r \in Reqs : res[r].ended \in 0 .. 1 /\ loc[r].attempts \in 0 .. maxRetries
    /\ days \in 0 .. MaxDays

\* ===================================================================== claims
Past(r, places) == pc[r] \in places

\* C1 (cache short-circuit): a request whose existence check returned true
\* (fresh cache record or namespace confirmed by the store) has called neither
\* the transcript loader, nor the splitter, nor addDocuments; it is at
\* retrieval or beyond it, and once beyond it has called the retriever.
C1_CacheShortCircuit ==
    \A r \in Reqs :
        loc[r].exists = "yes" =>
            /\ calls[r].loader = 0 /\ calls[r].split = 0 /\ calls[r].add = 0
            /\ Past(r, {"retrieve", "open", "stream", "done"})
            /\ pc[r] # "retrieve" => calls[r].retrieve = 1

\* a request served from a fresh cache record has gone through retrieval
C1_Witness ==
    \E r \in Reqs :
        /\ loc[r].exists = "yes" /\ calls[r].cacheRead = 1 /\ calls[r].stats = 0
        /\ calls[r].retrieve = 1 /\ pc[r] = "done"

\* C2 (retry outcome, maxRetries = 3): a request whose addDocuments calls
\* failed, failed and then succeeded carries no ingestion error, has written
\* the cache once and the cache holds a record for its namespace; a request
\* whose three calls all failed has ended with the error of the third call
\* and has never written the cache.
C2_RetryOutcome ==
    \A r \in Reqs :
        /\ calls[r].addLog = <<"err", "err", "ok">> =>
               /\ Ns(r) \in DOMAIN embeddingCache
               /\ calls[r].cacheWrite = 1
               /\ loc[r].err.name # "StoreWriteError"
               /\ Past(r, {"retrieve", "open", "stream", "done"})
        /\ calls[r].addLog = <<"err", "err", "err">> =>
               /\ pc[r] = "done"
               /\ loc[r].outcome = "failed"
               /\ loc[r].err = StoreWriteError(3)
               /\ calls[r].cacheWrite = 0

C2_Witness ==
    \E r \in Reqs, q \in Reqs :
        /\ calls[r].addLog = <<"err", "err", "ok">> /\ pc[r] = "done"
        /\ calls[q].addLog = <<"err", "err", "err">>

\* C3 (reconciliation), as claimed: a request received after an ingestion of
\* its namespace failed half way, that misses the cache while the namespace
\* is still partly written, does not reach retrieval without calling
\* addDocuments.
C3_ReingestAfterPartial ==
    \A r \in Reqs :
        ( /\ loc[r].afterPartial
          /\ calls[r].stats = 1
          /\ PartlyWritten(store, Ns(r))
          /\ pc[r] = "retrieve" )
        => calls[r].add > 0

\* C4 (no duplicated content), as claimed: as long as requests were handled
\* one after another, no namespace holds a chunk ordinal more than once.
C4_NoDuplicateChunk ==
    ~overlapped =>
        \A ns \in DOMAIN store : \A i \in Chunks : store[ns][i] <= 1

\* C5 (no single-flight): a request whose store-backed existence check
\* completes while the store has no such namespace is told "absent" and moves
\* on to ingestion, whatever the other request is doing, also while that one
\* is in the middle of ingesting the same namespace.
C5_NoSingleFlight ==
    [][ \A r \in Reqs :
          ( /\ pc[r] = "stats" /\ pc'[r] # "stats"
            /\ Ns(r) \notin DOMAIN store )
          => (loc'[r].exists = "no" /\ pc'[r] = "load") ]_vars

\* both requests of one uningested video were told "absent" and both have an
\* addDocuments call for the same namespace under way
C5_Witness ==
    /\ received = 2 /\ days = 0
    /\ Ns(1) = Ns(2)
    /\ \A r \in Reqs :
        /\ pc[r] = "addret" /\ loc[r].exists = "no"
        /\ calls[r].stats = 1 /\ calls[r].add = 1

\* C6 (empty retrieval): a request whose retrieval returned no chunk has built
\* no chain and never invoked the model, and is answered, with no status set,
\* by the single JSON object {answer: <the literal>}.
C6_EmptyRetrieval ==
    \A r \in Reqs :
        loc[r].nres = 0 =>
            /\ pc[r] = "done" /\ loc[r].outcome = "literal"
            /\ calls[r].chain = 0 /\ calls[r].stream = 0
            /\ res[r].body = <<JsonAnswerItem(NotFoundLiteral)>>
            /\ res[r].statusSets = 0 /\ res[r].ended = 1

C6_Witness ==
    \E r \in Reqs : loc[r].nres = 0 /\ calls[r].retrieve = 1 /\ pc[r] = "done"

Fragments(n) == [k \in 1 .. n |-> FragmentItem(k)]

\* C7 (failure while streaming): a request that failed after fragments were
\* written has the fragments followed by the marker "\n\nError: <message>" as
\* its response and no status was ever set; a response with status 500 holds
\* the error object and nothing else; a failed request's response was ended
\* exactly once and no response is ended twice.
C7_FailureAfterStreaming ==
    \A r \in Reqs :
        /\ res[r].ended <= 1
        /\ loc[r].outcome = "failed" => res[r].ended = 1
        /\ (loc[r].outcome = "failed" /\ loc[r].produced >= 1) =>
               /\ res[r].body =
                      Append(Fragments(loc[r].produced), ErrorMarkerItem(loc[r].err))
               /\ res[r].statusSets = 0 /\ res[r].status = 200
        /\ res[r].status = 500 =>
               /\ loc[r].produced = 0
               /\ res[r].statusSets = 1
               /\ res[r].body = <<JsonErrorItem(Message(loc[r].err))>>

C7_Witness ==
    \E r \in Reqs :
        /\ loc[r].outcome = "failed" /\ loc[r].produced = MaxFrags
        /\ res[r].body[MaxFrags + 1].kind = "error_marker"

\* the videoUrl yields no `v` parameter
HasNoV(u) == Truthy(u) /\ SearchParamV(u) = Null

\* C8 (invalid video URL): a request whose videoUrl has no `v` parameter has
\* called no collaborator (no client built, no cache read, no store call, no
\* transcript load), its askYoutube step leaves the cache and the store as
\* they were, and when the URL parses the request ends with InvalidVideoUrl.
C8_InvalidUrlNoCalls ==
    /\ [] \A r \in Reqs :
           (pc[r] # "idle" /\ Truthy(body[r].query) /\ HasNoV(body[r].videoUrl)) =>
               /\ Past(r, {"resolve", "done"})
               /\ calls[r] = [FreshCalls EXCEPT !.ask = IF pc[r] = "done" THEN 1 ELSE 0]
               /\ pc[r] = "done" =>
                      /\ loc[r].outcome = "failed"
                      /\ ParsesAsURL(body[r].videoUrl) =>
                             loc[r].err = Err("InvalidVideoUrl")
    /\ [][ \A r \in Reqs :
             (pc[r] = "resolve" /\ pc'[r] # "resolve" /\ HasNoV(body[r].videoUrl))
             => UNCHANGED <<embeddingCache, store>> ]_vars

C8_Witness ==
    \E r \in Reqs :
        /\ body[r].videoUrl = UrlNoV /\ pc[r] = "done"
        /\ loc[r].err = Err("InvalidVideoUrl") /\ calls[r].ask = 1
        /\ DOMAIN store # {}

\* C9 (client error), as claimed: a request that ended with InvalidVideoUrl
\* was answered with a 4xx status.
C9_InvalidUrlIsClientError ==
    \A r \in Reqs :
        (pc[r] = "done" /\ loc[r].err.name = "InvalidVideoUrl")
        => res[r].status \in 400 .. 499

\* videoUrl or query is absent from the body, or is the empty string
LacksField(b) == b.videoUrl \in {Undefined, ""} \/ b.query \in {Undefined, ""}

\* C10 (request validation): a request without videoUrl or without query is
\* answered 400 in the step that receives it: askYoutube is not called, no
\* collaborator is called, and that step leaves the cache and the store as
\* they were.
C10_ValidationFirst ==
    /\ [] \A r \in Reqs :
           (pc[r] # "idle" /\ LacksField(body[r])) =>
               /\ pc[r] = "done" /\ loc[r].outcome = "rejected"
               /\ res[r].status = 400 /\ res[r].ended = 1
               /\ res[r].body = <<JsonErrorItem("Missing videoUrl or query")>>
               /\ calls[r] = FreshCalls
    /\ [][ \A r \in Reqs :
             (pc[r] = "idle" /\ pc'[r] # "idle" /\ LacksField(body'[r]))
             => UNCHANGED <<embeddingCache, store>> ]_vars

C10_Witness ==
    \E r \in Reqs :
        /\ body[r] = Body(Undefined, "x", Undefined)
        /\ pc[r] = "done" /\ res[r].status = 400
        /\ DOMAIN store # {}

IngestionErrors == {"TranscriptUnavailable", "EmptyTranscript", "StoreWriteError"}

\* C11 (ingestion failure aborts): a request that failed because the
\* transcript could not be fetched, was empty or blank, or because the store
\* write used up its retries, has ended as failed without any retrieval, chain
\* or model call; after the two transcript failures it has made no
\* addDocuments call and no cache write either.  A request that was sent to
\* ingestion with a blank transcript ends with EmptyTranscript, and one whose
\* maxRetries store writes all threw ends with the store's error.
C11_IngestFailureAborts ==
    \A r \in Reqs :
        /\ loc[r].err.name \in IngestionErrors =>
               /\ pc[r] = "done" /\ loc[r].outcome = "failed"
               /\ calls[r].retrieve = 0 /\ calls[r].chain = 0 /\ calls[r].stream = 0
               /\ loc[r].nres = -1
        /\ loc[r].err.name \in {"TranscriptUnavailable", "EmptyTranscript"} =>
               /\ calls[r].add = 0 /\ calls[r].cacheWrite = 0
        /\ (body[r].transcript = BlankTranscript /\ loc[r].exists = "no"
                /\ pc[r] # "load") =>
               loc[r].err = Err("EmptyTranscript")
        /\ calls[r].addLog = [i \in 1 .. maxRetries |-> "err"] =>
               loc[r].err.name = "StoreWriteError"

\* a blank transcript supplied by the caller has failed the request while the
\* other request's ingestion is in the index
C11_Witness ==
    \E r \in Reqs :
        /\ body[r].transcript = BlankTranscript
        /\ loc[r].err = Err("EmptyTranscript") /\ pc[r] = "done"
        /\ DOMAIN store # {}

\* the response of a request in one of the three terminal states
Terminal(r) ==
    /\ pc[r] = "done"
    /\ res[r].ended = 1
    /\ \/ /\ loc[r].outcome = "literal" /\ loc[r].err = NoErr
          /\ res[r].body = <<JsonAnswerItem(NotFoundLiteral)>>
       \/ /\ loc[r].outcome = "stream" /\ loc[r].err = NoErr
          /\ \A i \in DOMAIN res[r].body : res[r].body[i].kind = "fragment"
       \/ /\ loc[r].outcome = "failed" /\ loc[r].err # NoErr
          /\ res[r].body # <<>>
          /\ res[r].body[Len(res[r].body)].kind \in {"json_error", "error_marker"}

\* a request that passed the handler's validation
Accepted(r) == pc[r] # "idle" /\ loc[r].outcome # "rejected"

\* C12 (termination): when every collaborator call returns or throws, again
\* and again every request that passed validation is in exactly one of the
\* terminal states answered-with-the-literal, answered-with-a-stream or
\* failed, with its response ended once; as a request stays in flight until
\* it is answered, each accepted request gets there.  No response is ever
\* ended twice.
C12_Terminates ==
    /\ [](\A r \in Reqs : res[r].ended <= 1)
    /\ []<>(\A r \in Reqs : Accepted(r) => Terminal(r))

\* the three terminal states are reached: one request streamed its answer to
\* the end while the other failed
C12_Witness ==
    \E r, q \in Reqs :
        /\ Terminal(r) /\ loc[r].outcome = "stream" /\ loc[r].produced = MaxFrags
        /\ Terminal(q) /\ loc[q].outcome = "failed"

\* C13 (streaming forwarding): while the handler iterates over the model's
\* stream, the response holds exactly the fragments produced so far, each
\* once and in the order produced, and is still open, so a fragment is written
\* before the next one is asked for; a streamed answer that is complete holds
\* all the fragments in order and was closed after the last of them.
C13_StreamForwarding ==
    \A r \in Reqs :
        /\ pc[r] = "stream" =>
               /\ res[r].body = Fragments(loc[r].produced)
               /\ res[r].ended = 0
        /\ loc[r].outcome = "stream" =>
               /\ res[r].body = Fragments(loc[r].produced)
               /\ res[r].ended = 1 /\ pc[r] = "done"
        /\ (res[r].ended = 1 /\ loc[r].produced > 0) => pc[r] = "done"

\* a streamed answer of several fragments has been closed
C13_Witness ==
    \E r \in Reqs :
        /\ loc[r].outcome = "stream" /\ loc[r].produced >= 2
        /\ Len(res[r].body) = loc[r].produced /\ res[r].ended = 1

\* C14 (cache freshness): the step in which a request consults the cache
\* answers "exists" without a describeIndexStats call exactly when the cache
\* holds a record of the namespace that is younger than cacheTTL; with no
\* record, or a record of age cacheTTL or more, it takes nothing from the cache
\* and goes on to query the store.
C14_CacheFreshness ==
    [][\A r \in Reqs :
          (pc[r] = "check" /\ pc'[r] # "check") =>
              IF /\ Ns(r) \in DOMAIN embeddingCache
                 /\ now - embeddingCache[Ns(r)] < cacheTTL
              THEN /\ loc'[r].exists = "yes"
                   /\ calls'[r].stats = calls[r].stats
                   /\ pc'[r] = "retrieve"
              ELSE /\ loc'[r].exists = "unknown"
                   /\ calls'[r].stats = calls[r].stats + 1
                   /\ pc'[r] = "stats"]_vars

\* a request that came after the record's writer had finished found the
\* record exactly cacheTTL old and is querying the store
C14_Witness ==
    \E r \in Reqs :
        /\ ~overlapped
        /\ pc[r] = "stats"
        /\ Ns(r) \in DOMAIN embeddingCache
        /\ now - embeddingCache[Ns(r)] = cacheTTL

\* C15 (retry bound and backoff): a request calls addDocuments at most
\* maxRetries times and never again after a call succeeded; before attempt
\* k+1 it has waited retryDelay * k after the k-th failure; and the
\* maxRetries-th failure raises that attempt's error with no wait after it.
C15_RetryBackoff ==
    \A r \in Reqs :
        LET log == calls[r].addLog
            w == calls[r].waits
        IN  /\ calls[r].add <= maxRetries
            /\ calls[r].add \in {Len(log), Len(log) + 1}
            /\ \A i \in 1 .. Len(log) :
                   log[i] = "ok" => i = Len(log) /\ calls[r].add = i
            /\ \A k \in 1 .. Len(log) :
                   (log[k] = "err" /\ k < maxRetries) =>
                       Len(w) >= k /\ w[k] = retryDelay * k
            /\ (Len(log) = maxRetries /\ log[maxRetries] = "err") =>
                   /\ Len(w) = maxRetries - 1
                   /\ loc[r].err = StoreWriteError(maxRetries)
                   /\ pc[r] = "done"

\* the last attempt is running after two failures and their two waits
C15_Witness ==
    \E r \in Reqs :
        /\ calls[r].add = maxRetries /\ pc[r] = "addret"
        /\ calls[r].waits = <<retryDelay, retryDelay * 2>>

\* C16 (store-backed existence check): when a request's describeIndexStats
\* call returns, namespaceExists answers "exists" and writes the namespace's
\* cache record with the current time, leaving the other records alone, if
\* the namespace holds at least one entry in the store; if it holds none the
\* answer is "absent" and the cache is left as it was.
C16_StoreBackedCheck ==
    [][\A r \in Reqs :
          (pc[r] = "stats" /\ pc'[r] # "stats" /\ ~loc'[r].statsThrew) =>
              IF NsSize(store, Ns(r)) >= 1
              THEN /\ loc'[r].exists = "yes"
                   /\ pc'[r] = "retrieve"
                   /\ DOMAIN embeddingCache' = DOMAIN embeddingCache \cup {Ns(r)}
                   /\ embeddingCache'[Ns(r)] = now
                   /\ \A n \in DOMAIN embeddingCache \ {Ns(r)} :
                          embeddingCache'[n] = embeddingCache[n]
              ELSE /\ loc'[r].exists = "no"
                   /\ pc'[r] = "load"
                   /\ embeddingCache' = embeddingCache]_vars

\* after the record had expired the store confirmed the namespace, and the
\* record now carries the time of the confirmation
C16_Witness ==
    \E r \in Reqs :
        /\ calls[r].stats = 1 /\ loc[r].exists = "yes" /\ pc[r] = "retrieve"
        /\ days = 1 /\ embeddingCache[Ns(r)] = now

\* C17 (fail-soft existence check): when a request's describeIndexStats call
\* throws, namespaceExists answers "absent": the request has no error and no
\* response yet, the cache is as it was, and the request goes on to load the
\* transcript, whether or not the namespace holds entries in the store.
C17_FailSoftCheck ==
    [][\A r \in Reqs :
          (pc[r] = "stats" /\ pc'[r] # "stats" /\ loc'[r].statsThrew) =>
              /\ loc'[r].exists = "no"
              /\ loc'[r].err = NoErr /\ loc'[r].outcome = "none"
              /\ res'[r] = res[r]
              /\ embeddingCache' = embeddingCache
              /\ pc'[r] = "load"]_vars

\* the query threw for a namespace that an earlier request had filled, and
\* the request is about to ingest the transcript again
C17_Witness ==
    \E r \in Reqs :
        /\ ~overlapped
        /\ loc[r].statsThrew /\ pc[r] = "load"
        /\ NsSize(store, Ns(r)) >= NumChunks

\* the maps f and g agree on namespace n: both lack it or both hold the same
SameRecord(f, g, n) ==
    /\ (n \in DOMAIN f) = (n \in DOMAIN g)
    /\ n \in DOMAIN f => f[n] = g[n]

\* C18 (writes partitioned by video): whatever the other request is doing,
\* a step of a request for the video with id v leaves the cache record and the
\* store entries of every namespace other than "yt-" + v as they were, and its
\* retrieval returns none or at most topK of the entries of "yt-" + v.
C18_PartitionedByVideo ==
    [][\A r \in Reqs :
          ( /\ pc[r] \in {"check", "stats", "load", "add", "addret",
                          "retrieve", "open", "stream"}
            /\ pc'[r] # pc[r] \/ loc'[r] # loc[r] \/ calls'[r] # calls[r] )
          => LET own == "yt-" \o SearchParamV(body[r].videoUrl)
                 all == DOMAIN embeddingCache \cup DOMAIN embeddingCache'
                            \cup DOMAIN store \cup DOMAIN store'
             IN  /\ \A n \in all \ {own} :
                        /\ SameRecord(embeddingCache, embeddingCache', n)
                        /\ SameRecord(store, store', n)
                 /\ pc[r] = "retrieve" =>
                        loc'[r].nres \in {-1, 0, Min(topK, NsSize(store, own))}]_vars

\* two requests for different videos have their store writes under way at the
\* same time, and both namespaces hold entries
C18_Witness ==
    \E r, q \in Reqs :
        /\ SearchParamV(body[r].videoUrl) = "A" /\ SearchParamV(body[q].videoUrl) = "B"
        /\ pc[r] = "addret" /\ pc[q] = "addret"
        /\ {"yt-A", "yt-B"} \subseteq DOMAIN store

\* C19 (cache never ahead of the store): every namespace that has a record in
\* the cache, fresh or expired, holds at least one entry in the store.
C19_CacheBehindStore ==
    \A ns \in DOMAIN embeddingCache :
        /\ ns \in DOMAIN store
        /\ \E i \in Chunks : store[ns][i] >= 1

\* records of two namespaces are in the cache, one of them written by a
\* confirmation of the store after a day
C19_Witness ==
    /\ Cardinality(DOMAIN embeddingCache) = 2
    /\ \E ns \in DOMAIN embeddingCache : embeddingCache[ns] = cacheTTL

\* C20 (no retrieval without a completed ingestion), as claimed: under every
\* config, a request that was told the namespace is absent and has reached
\* the retrieval step has had one addDocuments call succeed, and the cache
\* holds a record of its namespace.
C20_NoRetrievalWithoutIngestion ==
    \A r \in Reqs :
        ( /\ loc[r].exists = "no"
          /\ pc[r] = "retrieve" \/ calls[r].retrieve >= 1 )
        => /\ \E i \in DOMAIN calls[r].addLog : calls[r].addLog[i] = "ok"
           /\ Ns(r) \in DOMAIN embeddingCache
====
